---------------------------- MODULE Spec2Model ----------------------------
(***************************************************************************)
(* A model of src/voice/asr.py: the Volcano Engine streaming-ASR client.   *)
(*                                                                         *)
(*  - the frame codec (construct_full_client_request,                      *)
(*    construct_audio_only_request, parse_response) over byte sequences;   *)
(*  - the session driver (recognize): the main task, the send_audio task  *)
(*    and the remote side, interleaved at the await points.                *)
(*                                                                         *)
(* Bytes are the integers 0..255, byte strings and texts are sequences.    *)
(* The library calls the code makes are modelled by what they do:          *)
(* struct.pack/unpack, gzip.compress/decompress, bytes.decode, json.dumps  *)
(* and json.loads, str.strip, dict.get.                                    *)
(***************************************************************************)
EXTENDS Integers, Sequences, FiniteSets, TLC

(***************************************************************************)
(* Bounds of the model.                                                    *)
(***************************************************************************)
\* the audio file holds at most MaxChunks full chunks (plus or minus a byte)
MaxChunks == 2
\* the remote side delivers at most MaxInbound messages in a session
MaxInbound == 2

(***************************************************************************)
(* Byte strings.                                                           *)
(***************************************************************************)
Min(a, b) == IF a <= b THEN a ELSE b
Max(a, b) == IF a >= b THEN a ELSE b

\* Python's s[a:b] for 0 <= a, 0 <= b (offsets from 0, end excluded, clipped)
Slice(s, a, b) == SubSeq(s, a + 1, Min(b, Len(s)))

\* struct.pack(">I", n)
PackBE32(n) ==
  << (n \div 16777216) % 256, (n \div 65536) % 256, (n \div 256) % 256, n % 256 >>

\* struct.unpack(">I", b)[0]
UnpackBE32(b) == ((b[1] * 256 + b[2]) * 256 + b[3]) * 256 + b[4]

\* struct.pack("<I", n) and its inverse (the gzip trailer is little-endian)
PackLE32(n) ==
  << n % 256, (n \div 256) % 256, (n \div 65536) % 256, (n \div 16777216) % 256 >>

UnpackLE32(b) == ((b[4] * 256 + b[3]) * 256 + b[2]) * 256 + b[1]

(***************************************************************************)
(* JSON values, as Python holds them after json.loads.                     *)
(***************************************************************************)
JNull == [t |-> "null"]
JBool(b) == [t |-> "bool", b |-> b]
JInt(n) == [t |-> "int", n |-> n]
JStr(s) == [t |-> "str", s |-> s]
JList(items) == [t |-> "list", items |-> items]
\* a dict keeps its keys in insertion order; k[i] maps to v[i]
JDict(k, v) == [t |-> "dict", k |-> k, v |-> v]

IsDict(x) == x.t = "dict"

KeyIndex(d, key) ==
  IF \E i \in 1..Len(d.k) : d.k[i] = key
  THEN CHOOSE i \in 1..Len(d.k) : d.k[i] = key
  ELSE 0

\* key in d
DictHas(d, key) == KeyIndex(d, key) # 0

\* d.get(key, default)
DictGet(d, key, default) ==
  IF DictHas(d, key) THEN d.v[KeyIndex(d, key)] ELSE default

\* d[key] = val
DictSet(d, key, val) ==
  IF DictHas(d, key)
  THEN JDict(d.k, [d.v EXCEPT ![KeyIndex(d, key)] = val])
  ELSE JDict(Append(d.k, key), Append(d.v, val))

\* bool(x)
Truthy(x) ==
  CASE x.t = "null" -> FALSE
    [] x.t = "bool" -> x.b
    [] x.t = "int"  -> x.n # 0
    [] x.t = "str"  -> x.s # <<>>
    [] x.t = "list" -> x.items # <<>>
    [] x.t = "dict" -> x.k # <<>>

(***************************************************************************)
(* Texts the code names (as code points) and the keys of the frames.      *)
(***************************************************************************)
K_result     == <<114, 101, 115, 117, 108, 116>>
K_text       == <<116, 101, 120, 116>>
K_utterances == <<117, 116, 116, 101, 114, 97, 110, 99, 101, 115>>
K_definite   == <<100, 101, 102, 105, 110, 105, 116, 101>>
K_msg_type   == <<95, 109, 115, 103, 95, 116, 121, 112, 101>>
K_sequence   == <<95, 115, 101, 113, 117, 101, 110, 99, 101>>
K_raw        == <<114, 97, 119>>
K_error      == <<101, 114, 114, 111, 114>>
\* "Response too short"
S_too_short  ==
  <<82, 101, 115, 112, 111, 110, 115, 101, 32, 116, 111, 111, 32, 115, 104, 111, 114, 116>>

(***************************************************************************)
(* json.dumps (default separators ", " and ": ").                          *)
(***************************************************************************)
RECURSIVE Decimal(_)
Decimal(n) ==
  IF n < 10 THEN <<48 + n>> ELSE Decimal(n \div 10) \o <<48 + (n % 10)>>

Quoted(s) == <<34>> \o s \o <<34>>

RECURSIVE json_dumps(_)
RECURSIVE DumpItems(_, _)
RECURSIVE DumpMembers(_, _)
json_dumps(x) ==
  CASE x.t = "null" -> <<110, 117, 108, 108>>
    [] x.t = "bool" ->
         IF x.b THEN <<116, 114, 117, 101>> ELSE <<102, 97, 108, 115, 101>>
    [] x.t = "int"  -> Decimal(x.n)
    [] x.t = "str"  -> Quoted(x.s)
    [] x.t = "list" -> <<91>> \o DumpItems(x.items, 1) \o <<93>>
    [] x.t = "dict" -> <<123>> \o DumpMembers(x, 1) \o <<125>>

DumpItems(items, i) ==
  IF i > Len(items) THEN <<>>
  ELSE (IF i > 1 THEN <<44, 32>> ELSE <<>>)
       \o json_dumps(items[i]) \o DumpItems(items, i + 1)

DumpMembers(d, i) ==
  IF i > Len(d.k) THEN <<>>
  ELSE (IF i > 1 THEN <<44, 32>> ELSE <<>>)
       \o Quoted(d.k[i]) \o <<58, 32>> \o json_dumps(d.v[i])
       \o DumpMembers(d, i + 1)

(***************************************************************************)
(* json.loads, for the JSON this model exchanges: objects, arrays,         *)
(* strings without escapes, unsigned integers, true, false, null, with    *)
(* white space between tokens.  json_loads(s).ok = FALSE stands for        *)
(* json.JSONDecodeError.                                                   *)
(***************************************************************************)
JsonWs == {32, 9, 10, 13}
JsonDigit == 48..57

ParseFail == [ok |-> FALSE, v |-> JNull, pos |-> 0]
ParseOk(v, pos) == [ok |-> TRUE, v |-> v, pos |-> pos]

\* the first index from i on that holds no white space (Len(s) + 1: none)
SkipWs(s, i) ==
  IF \E j \in i..Len(s) : s[j] \notin JsonWs
  THEN CHOOSE j \in i..Len(s) :
         s[j] \notin JsonWs /\ \A k \in i..(j - 1) : s[k] \in JsonWs
  ELSE Max(i, Len(s) + 1)

HasPrefix(s, i, lit) ==
  /\ i + Len(lit) - 1 <= Len(s)
  /\ SubSeq(s, i, i + Len(lit) - 1) = lit

\* the index of the quote closing a string whose text starts at i, or 0
\* (a backslash or a control character before it: 0)
StringStop(c) == c = 34 \/ c = 92 \/ c < 32

ScanString(s, i) ==
  IF \E j \in i..Len(s) : StringStop(s[j])
  THEN LET e == CHOOSE j \in i..Len(s) :
                  StringStop(s[j]) /\ \A k \in i..(j - 1) : ~StringStop(s[k])
       IN IF s[e] = 34 THEN e ELSE 0
  ELSE 0

\* the index after the run of digits starting at i
ScanDigits(s, i) ==
  IF \E j \in i..Len(s) : s[j] \notin JsonDigit
  THEN CHOOSE j \in i..Len(s) :
         s[j] \notin JsonDigit /\ \A k \in i..(j - 1) : s[k] \in JsonDigit
  ELSE Max(i, Len(s) + 1)

RECURSIVE DigitsValue(_, _, _)
DigitsValue(s, i, e) ==
  IF e <= i THEN 0 ELSE DigitsValue(s, i, e - 1) * 10 + (s[e - 1] - 48)

RECURSIVE ParseValue(_, _)
RECURSIVE ParseMembers(_, _, _)
RECURSIVE ParseItems(_, _, _)
ParseValue(s, i0) ==
  LET i == SkipWs(s, i0) IN
  IF i > Len(s) THEN ParseFail
  ELSE IF s[i] = 123 THEN
    LET j == SkipWs(s, i + 1) IN
    IF j <= Len(s) /\ s[j] = 125 THEN ParseOk(JDict(<<>>, <<>>), j + 1)
    ELSE ParseMembers(s, j, JDict(<<>>, <<>>))
  ELSE IF s[i] = 91 THEN
    LET j == SkipWs(s, i + 1) IN
    IF j <= Len(s) /\ s[j] = 93 THEN ParseOk(JList(<<>>), j + 1)
    ELSE ParseItems(s, j, <<>>)
  ELSE IF s[i] = 34 THEN
    LET e == ScanString(s, i + 1) IN
    IF e = 0 THEN ParseFail ELSE ParseOk(JStr(SubSeq(s, i + 1, e - 1)), e + 1)
  ELSE IF HasPrefix(s, i, <<116, 114, 117, 101>>) THEN ParseOk(JBool(TRUE), i + 4)
  ELSE IF HasPrefix(s, i, <<102, 97, 108, 115, 101>>) THEN ParseOk(JBool(FALSE), i + 5)
  ELSE IF HasPrefix(s, i, <<110, 117, 108, 108>>) THEN ParseOk(JNull, i + 4)
  ELSE IF s[i] \in JsonDigit THEN
    \* a leading 0 is a number of its own
    LET e == IF s[i] = 48 THEN i + 1 ELSE ScanDigits(s, i) IN
    ParseOk(JInt(DigitsValue(s, i, e)), e)
  ELSE ParseFail

ParseMembers(s, i, d) ==
  IF i > Len(s) \/ s[i] # 34 THEN ParseFail
  ELSE
    LET e == ScanString(s, i + 1) IN
    IF e = 0 THEN ParseFail
    ELSE
      LET c == SkipWs(s, e + 1) IN
      IF c > Len(s) \/ s[c] # 58 THEN ParseFail
      ELSE
        LET r == ParseValue(s, c + 1) IN
        IF ~r.ok THEN ParseFail
        ELSE
          LET n  == SkipWs(s, r.pos)
              d2 == DictSet(d, SubSeq(s, i + 1, e - 1), r.v)
          IN
          IF n > Len(s) THEN ParseFail
          ELSE IF s[n] = 44 THEN ParseMembers(s, SkipWs(s, n + 1), d2)
          ELSE IF s[n] = 125 THEN ParseOk(d2, n + 1)
          ELSE ParseFail

ParseItems(s, i, items) ==
  LET r == ParseValue(s, i) IN
  IF ~r.ok THEN ParseFail
  ELSE
    LET n == SkipWs(s, r.pos) IN
    IF n > Len(s) THEN ParseFail
    ELSE IF s[n] = 44 THEN ParseItems(s, n + 1, Append(items, r.v))
    ELSE IF s[n] = 93 THEN ParseOk(JList(Append(items, r.v)), n + 1)
    ELSE ParseFail

json_loads(s) ==
  LET r == ParseValue(s, 1) IN
  IF r.ok /\ SkipWs(s, r.pos) > Len(s)
  THEN [ok |-> TRUE, v |-> r.v]
  ELSE [ok |-> FALSE, v |-> JNull]

(***************************************************************************)
(* bytes.decode("utf-8", errors="ignore"): the code points of the valid    *)
(* sequences; an invalid or truncated sequence is dropped up to the byte   *)
(* that breaks it, and decoding resumes there.                             *)
(***************************************************************************)
\* how many continuation bytes the lead byte b announces (-1: no lead byte)
Utf8Need(b) ==
  IF b < 128 THEN 0
  ELSE IF b \in 194..223 THEN 1
  ELSE IF b \in 224..239 THEN 2
  ELSE IF b \in 240..244 THEN 3
  ELSE -1

\* the values the first continuation byte may take after lead byte b
Utf8First(b) ==
  IF b = 224 THEN 160..191
  ELSE IF b = 237 THEN 128..159
  ELSE IF b = 240 THEN 144..191
  ELSE IF b = 244 THEN 128..143
  ELSE 128..191

\* the number of valid continuation bytes that follow the lead byte at i
RECURSIVE Utf8Good(_, _, _)
Utf8Good(s, i, k) ==
  IF k > Utf8Need(s[i]) \/ i + k > Len(s) THEN k - 1
  ELSE IF s[i + k] \in (IF k = 1 THEN Utf8First(s[i]) ELSE 128..191)
       THEN Utf8Good(s, i, k + 1)
       ELSE k - 1

Utf8Lead(b) ==
  IF b < 128 THEN b
  ELSE IF b < 224 THEN b - 192
  ELSE IF b < 240 THEN b - 224
  ELSE b - 240

RECURSIVE Utf8Point(_, _, _)
Utf8Point(s, i, k) ==
  IF k = 0 THEN Utf8Lead(s[i]) ELSE Utf8Point(s, i, k - 1) * 64 + (s[i + k] - 128)

\* the first index from i on that holds no ASCII byte (Len(s) + 1: none)
AsciiEnd(s, i) ==
  IF \E j \in i..Len(s) : s[j] >= 128
  THEN CHOOSE j \in i..Len(s) : s[j] >= 128 /\ \A k \in i..(j - 1) : s[k] < 128
  ELSE Max(i, Len(s) + 1)

RECURSIVE Utf8From(_, _)
Utf8From(s, i) ==
  IF i > Len(s) THEN <<>>
  ELSE IF s[i] < 128
  THEN SubSeq(s, i, AsciiEnd(s, i) - 1) \o Utf8From(s, AsciiEnd(s, i))
  ELSE IF Utf8Need(s[i]) = -1 THEN Utf8From(s, i + 1)
  ELSE
    LET good == Utf8Good(s, i, 1) IN
    IF good = Utf8Need(s[i])
    THEN <<Utf8Point(s, i, good)>> \o Utf8From(s, i + good + 1)
    ELSE Utf8From(s, i + good + 1)

decode_utf8_ignore(b) == Utf8From(b, 1)

(***************************************************************************)
(* str.strip(): leading and trailing white space removed.                  *)
(***************************************************************************)
StrWs == (9..13) \cup (28..32) \cup {133, 160, 5760, 8232, 8233, 8239, 8287, 12288}
           \cup (8192..8202)

strip(s) ==
  LET kept == {j \in 1..Len(s) : s[j] \notin StrWs} IN
  IF kept = {} THEN <<>>
  ELSE SubSeq(s, CHOOSE j \in kept : \A k \in kept : j <= k,
                 CHOOSE j \in kept : \A k \in kept : j >= k)

(***************************************************************************)
(* gzip.  A member is the 10-byte header 1f 8b 08 00 MTIME XFL OS, the     *)
(* DEFLATE stream, and the trailer CRC32, ISIZE (little-endian).  DEFLATE  *)
(* is modelled by its stored-block encoding (01 LEN NLEN data) and CRC-32  *)
(* by a polynomial checksum of the same role.                              *)
(***************************************************************************)
\* the sum of i * (data[i] + 1) for i in lo..hi
RECURSIVE Crc(_, _, _)
Crc(data, lo, hi) ==
  IF lo > hi THEN 0
  ELSE IF lo = hi THEN lo * (data[lo] + 1)
  ELSE Crc(data, lo, (lo + hi) \div 2) + Crc(data, (lo + hi) \div 2 + 1, hi)

Crc32(data) == (Crc(data, 1, Len(data)) + 1) % 65521

GzipHeader(mtime) == <<31, 139, 8, 0>> \o PackLE32(mtime) \o <<2, 255>>

\* gzip.compress(data), written at time mtime
gzip_compress(data, mtime) ==
  GzipHeader(mtime)
    \o <<1, Len(data) % 256, Len(data) \div 256,
         255 - (Len(data) % 256), 255 - (Len(data) \div 256)>>
    \o data
    \o PackLE32(Crc32(data)) \o PackLE32(Len(data))

\* b.lstrip(b"\x00")
LStripZero(b) ==
  IF \E j \in 1..Len(b) : b[j] # 0
  THEN SubSeq(b, CHOOSE j \in 1..Len(b) : b[j] # 0 /\ \A k \in 1..(j - 1) : b[k] = 0,
              Len(b))
  ELSE <<>>

GzipFail == [ok |-> FALSE, out |-> <<>>]

\* gzip.decompress(b): the members' data concatenated; ok = FALSE stands for
\* the exception it raises (BadGzipFile, EOFError, zlib.error)
RECURSIVE gzip_decompress(_)
gzip_decompress(b) ==
  IF b = <<>> THEN [ok |-> TRUE, out |-> <<>>]
  ELSE IF Len(b) < 23 \/ SubSeq(b, 1, 4) # <<31, 139, 8, 0>> \/ b[11] # 1 THEN GzipFail
  ELSE
    LET len  == b[12] + 256 * b[13]
        data == SubSeq(b, 16, 15 + len)
    IN
    IF \/ b[14] # 255 - b[12]
       \/ b[15] # 255 - b[13]
       \/ Len(b) < 15 + len + 8
    THEN GzipFail
    ELSE IF \/ SubSeq(b, 16 + len, 19 + len) # PackLE32(Crc32(data))
            \/ SubSeq(b, 20 + len, 23 + len) # PackLE32(len)
    THEN GzipFail
    ELSE
      LET rest == gzip_decompress(LStripZero(SubSeq(b, 24 + len, Len(b)))) IN
      IF rest.ok THEN [ok |-> TRUE, out |-> data \o rest.out] ELSE GzipFail

(***************************************************************************)
(* The frame codec.                                                        *)
(***************************************************************************)
\* a slip: the size field holds the length of the JSON, not of the gzip stream
construct_full_client_request_json_size(payload, mtime) ==
  <<17, 16, 17, 0>> \o PackBE32(Len(json_dumps(payload)))
    \o gzip_compress(json_dumps(payload), mtime)

\* construct_full_client_request(payload), gzip stamping the time mtime
construct_full_client_request(payload, mtime) ==
  LET payload_json_bytes == json_dumps(payload)
      payload_gzip       == gzip_compress(payload_json_bytes, mtime)
      header             == <<17, 16, 17, 0>>
      size               == PackBE32(Len(payload_gzip))
  IN header \o size \o payload_gzip

\* what parse_response hands back: a dict it returns or an exception it raises
Returned(d) == [raised |-> "none", result |-> d]
Raised(e) == [raised |-> e, result |-> JNull]

\* lines 63-68: payload = gzip.decompress(payload), left as it is on any exception
Decompressed(payload, unzipped) == IF unzipped.ok THEN unzipped.out ELSE payload

\* lines 72-78: the parsed JSON with the two fields attached, or the raw fallback
Attach(msg_type, sequence, payload_str, parsed) ==
  IF parsed.ok
  THEN
    \* result["_msg_type"] = msg_type raises TypeError unless result is a dict
    IF IsDict(parsed.v)
    THEN Returned(DictSet(DictSet(parsed.v, K_msg_type, JInt(msg_type)),
                          K_sequence, JInt(sequence)))
    ELSE Raised("TypeError")
  ELSE Returned(JDict(<<K_msg_type, K_sequence, K_raw>>,
                      <<JInt(msg_type), JInt(sequence), JStr(payload_str)>>))

\* lines 70-78, for the text payload_str
ParseJson(msg_type, sequence, payload_str) ==
  Attach(msg_type, sequence, payload_str, json_loads(payload_str))

\* lines 63-78, for the payload cut from the frame
ParsePayload(msg_type, compression, sequence, payload) ==
  ParseJson(msg_type, sequence,
            decode_utf8_ignore(IF compression = 1
                               THEN Decompressed(payload, gzip_decompress(payload))
                               ELSE payload))

\* a slip: payload = data[12:], the declared size not used
parse_response_to_end(data) ==
  IF Len(data) < 12
  THEN Returned(JDict(<<K_error>>, <<JStr(S_too_short)>>))
  ELSE ParsePayload((data[2] \div 16) % 16,
                    data[3] % 16,
                    UnpackBE32(Slice(data, 4, 8)),
                    Slice(data, 12, Len(data)))

parse_response(data) ==
  IF Len(data) < 12
  THEN Returned(JDict(<<K_error>>, <<JStr(S_too_short)>>))
  ELSE ParsePayload((data[2] \div 16) % 16,
                    data[3] % 16,
                    UnpackBE32(Slice(data, 4, 8)),
                    Slice(data, 12, 12 + UnpackBE32(Slice(data, 8, 12))))

(***************************************************************************)
(* The audio file.  Its content is the fixed pattern AudioByte; a byte     *)
(* string cut from it (the file itself, a chunk) is the view               *)
(* [off, len]: the len bytes from offset off on.  A message given to       *)
(* websocket.send is [head, audio]: the bytes head followed by the bytes   *)
(* of the view audio.                                                      *)
(***************************************************************************)
chunk_size == 16000

AudioByte(i) == (i * 37 + 11) % 256

View(off, len) == [off |-> off, len |-> len]

\* a slip: the end of the slice not clipped to the length
ViewSlice_Unclipped(view, a, b) == View(view.off + a, b - a)

\* view[a:b]
ViewSlice(view, a, b) ==
  View(view.off + Min(a, view.len), Max(Min(b, view.len) - Min(a, view.len), 0))

ViewBytes(view) == [j \in 1..view.len |-> AudioByte(view.off + j - 1)]

MessageBytes(msg) == msg.head \o ViewBytes(msg.audio)

\* a slip: the final flag as bit 0 (0b0001) of the low nibble
construct_audio_only_request_flag_bit(audio_data, is_last) ==
  LET flags          == IF is_last THEN 1 ELSE 0
      msg_type_flags == 2 * 16 + flags
      header         == <<17, msg_type_flags, 0, 0>>
      size           == PackBE32(audio_data.len)
  IN [head |-> header \o size, audio |-> audio_data]

construct_audio_only_request(audio_data, is_last) ==
  LET flags          == IF is_last THEN 2 ELSE 0
      msg_type_flags == 2 * 16 + flags
      header         == <<17, msg_type_flags, 0, 0>>
      size           == PackBE32(audio_data.len)
  IN [head |-> header \o size, audio |-> audio_data]

\* the lengths an audio file may have
AudioLens ==
  {n \in {k * chunk_size + d : k \in 0..MaxChunks, d \in {-1, 0, 1}} :
     0 <= n /\ n <= MaxChunks * chunk_size}

(***************************************************************************)
(* The initial request of recognize (audio_format "pcm", sample_rate       *)
(* 16000; the uid is one sample of uuid4, the gzip time one of the clock). *)
(***************************************************************************)
init_payload ==
  JDict(<<<<117, 115, 101, 114>>,
          <<97, 117, 100, 105, 111>>,
          <<114, 101, 113, 117, 101, 115, 116>>>>,
        <<JDict(<<<<117, 105, 100>>>>,
                <<JStr(<<48, 48, 48, 48, 48, 48, 48, 48, 45, 48, 48, 48, 48, 45,
                         52, 48, 48, 48, 45, 56, 48, 48, 48, 45, 48, 48, 48, 48,
                         48, 48, 48, 48, 48, 48, 48, 48>>)>>),
          JDict(<<<<102, 111, 114, 109, 97, 116>>,
                  <<114, 97, 116, 101>>,
                  <<98, 105, 116, 115>>,
                  <<99, 104, 97, 110, 110, 101, 108>>,
                  <<99, 111, 100, 101, 99>>>>,
                <<JStr(<<112, 99, 109>>),
                  JInt(16000),
                  JInt(16),
                  JInt(1),
                  JStr(<<114, 97, 119>>)>>),
          JDict(<<<<109, 111, 100, 101, 108, 95, 110, 97, 109, 101>>,
                  <<108, 97, 110, 103, 117, 97, 103, 101>>,
                  <<101, 110, 97, 98, 108, 101, 95, 105, 116, 110>>,
                  <<101, 110, 97, 98, 108, 101, 95, 112, 117, 110, 99>>,
                  <<114, 101, 115, 117, 108, 116, 95, 116, 121, 112, 101>>,
                  <<115, 104, 111, 119, 95, 117, 116, 116, 101, 114, 97, 110,
                    99, 101, 115>>>>,
                <<JStr(<<98, 105, 103, 109, 111, 100, 101, 108>>),
                  JStr(<<122, 104>>),
                  JBool(TRUE),
                  JBool(TRUE),
                  JStr(<<102, 117, 108, 108>>),
                  JBool(TRUE)>>)>>)

init_msg == construct_full_client_request(init_payload, 1700000000)

(***************************************************************************)
(* What the remote side may send.  A binary message is a server frame:     *)
(* [0x11][type << 4][serialization << 4 | compression][0] sequence size    *)
(* payload.                                                                *)
(***************************************************************************)
ServerFrame(msg_type, compression, sequence, size, payload) ==
  <<17, msg_type * 16, 16 + compression, 0>>
    \o PackBE32(sequence) \o PackBE32(size) \o payload

Binary(body) == [bin |-> TRUE, body |-> body]
Text(body) == [bin |-> FALSE, body |-> body]

T_hi == <<104, 105>>
T_yo == <<121, 111>>

\* {"result": {"text": text, "utterances": utterances}}
ResultOf(text, utterances) ==
  JDict(<<K_result>>, <<JDict(<<K_text, K_utterances>>, <<text, utterances>>)>>)

\* [{"definite": d}]
Utterances(d) == JList(<<JDict(<<K_definite>>, <<d>>)>>)

J_definite == json_dumps(ResultOf(JStr(T_hi), Utterances(JBool(TRUE))))
J_partial  == json_dumps(ResultOf(JStr(T_yo), Utterances(JBool(FALSE))))
J_padded   == json_dumps(ResultOf(JStr(<<32>> \o T_yo \o <<32>>), Utterances(JBool(TRUE))))

\* type 9, text "hi", first utterance definite
F_definite == Binary(ServerFrame(9, 0, 1, Len(J_definite), J_definite))
\* type 9, text "yo", first utterance not definite
F_partial == Binary(ServerFrame(9, 0, 2, Len(J_partial), J_partial))
\* type 9, gzip, text " yo ", first utterance definite
F_gzip_definite ==
  Binary(ServerFrame(9, 1, 3, Len(gzip_compress(J_padded, 0)), gzip_compress(J_padded, 0)))
\* type 9, text " " (white space only), first utterance definite
F_definite_blank ==
  LET j == json_dumps(ResultOf(JStr(<<32>>), Utterances(JBool(TRUE))))
  IN Binary(ServerFrame(9, 0, 4, Len(j), j))
\* type 9, text "", first utterance definite
F_definite_empty ==
  LET j == json_dumps(ResultOf(JStr(<<>>), Utterances(JBool(TRUE))))
  IN Binary(ServerFrame(9, 0, 5, Len(j), j))
\* type 9, text "hi", no utterances reported
F_no_utterances ==
  LET j == json_dumps(JDict(<<K_result>>, <<JDict(<<K_text>>, <<JStr(T_hi)>>)>>))
  IN Binary(ServerFrame(9, 0, 6, Len(j), j))
\* type 15, {"code": 1}
F_error ==
  LET j == json_dumps(JDict(<<<<99, 111, 100, 101>>>>, <<JInt(1)>>))
  IN Binary(ServerFrame(15, 0, 7, Len(j), j))
\* type 15, payload [] (JSON, but no object)
F_error_list == Binary(ServerFrame(15, 0, 8, 2, <<91, 93>>))
\* type 9, marked gzip, payload not gzip: the JSON of F_partial as it is
F_bad_gzip == Binary(ServerFrame(9, 1, 9, Len(J_partial), J_partial))
\* 11 bytes, header bits of type 15
F_short == Binary(<<17, 240, 16, 0, 0, 0, 0, 10, 0, 0, 0>>)
\* type 11, the payload of F_definite
F_other == Binary(ServerFrame(11, 0, 11, Len(J_definite), J_definite))
\* a text message: the JSON of F_definite
M_text == Text(J_definite)
\* type 9, payload { (no JSON)
F_raw == Binary(ServerFrame(9, 0, 13, 1, <<123>>))
\* type 9, the declared size 4 bytes more than the payload of F_definite
F_oversize == Binary(ServerFrame(9, 0, 14, Len(J_definite) + 4, J_definite))
\* type 9, the payload of F_definite, then the bytes " }" past the declared size
F_undersize ==
  Binary(ServerFrame(9, 0, 15, Len(J_definite), J_definite \o <<32, 125>>))
\* type 9, {"result": {"text": 1}}
F_text_int ==
  LET j == json_dumps(JDict(<<K_result>>, <<JDict(<<K_text>>, <<JInt(1)>>)>>))
  IN Binary(ServerFrame(9, 0, 16, Len(j), j))
\* type 9, text "hi", utterances [1]
F_utterance_int ==
  LET j == json_dumps(ResultOf(JStr(T_hi), JList(<<JInt(1)>>)))
  IN Binary(ServerFrame(9, 0, 17, Len(j), j))
\* type 9, {"result": []}
F_result_list ==
  LET j == json_dumps(JDict(<<K_result>>, <<JList(<<>>)>>))
  IN Binary(ServerFrame(9, 0, 18, Len(j), j))
\* type 9, no payload
F_empty == Binary(ServerFrame(9, 0, 19, 0, <<>>))

\* 11 bytes, header bits of type 9: F_definite cut short
F_short_result == Binary(Slice(F_definite.body, 0, 11))
\* a binary message of no bytes
F_none == Binary(<<>>)
\* type 11, payload [] (JSON, but no object)
F_other_list == Binary(ServerFrame(11, 0, 20, 2, <<91, 93>>))

Inbound ==
  { F_definite, F_partial, F_gzip_definite, F_definite_blank, F_definite_empty,
    F_no_utterances, F_error, F_error_list, F_bad_gzip, F_short, F_other,
    M_text, F_raw, F_oversize, F_undersize, F_text_int, F_utterance_int,
    F_result_list, F_empty, F_short_result, F_none, F_other_list }

(***************************************************************************)
(* The session: recognize, from the connection being established on.       *)
(***************************************************************************)
VARIABLES
  pc,          \* where the main task is: "init" (sending the initial request),
               \* "read" (reading the file), "recv" (waiting in the loop), "join"
               \* (awaiting send_task), "close" (entering finally), "closing"
               \* (awaiting websocket.close()), "done" (recognize has exited)
  exc,         \* the exception on its way out of recognize ("none": none)
  outcome,     \* "running", "returned" or "raised"
  ret,         \* the value recognize returned
  final_text,  \* final_text
  all_text,    \* all_text
  data,        \* data: the message the last recv gave
  received,    \* how many messages recv has given
  waits,       \* how many receive waits the loop has issued
  loop_end,    \* how the loop ended: "none" (it has not), "definite", "error",
               \* "timeout", "closed", "raised"
  audio_len,   \* len(audio_data) (-1: not read)
  i,           \* the loop variable of send_audio
  total_sent,  \* total_sent
  send_task,   \* "none" (not created), "run", "done", "failed" (it raised)
  wire,        \* the messages websocket.send has sent, in order
  conn,        \* the connection: "open", "remote_closed", "closed"
  closes,      \* how often websocket.close() was invoked
  \* the codec, used on its own
  record,      \* a request record
  buffer,      \* a byte string
  decoded,     \* what parse_response made of it ("raised" = "unset": nothing yet)
  made         \* where buffer comes from: "none" (there is none yet), "input"
               \* (it was received), "full" (construct_full_client_request)

session_vars ==
  <<pc, exc, outcome, ret, final_text, all_text, data, received, waits, loop_end,
    audio_len, i, total_sent, send_task, wire, conn, closes>>
codec_vars == <<record, buffer, decoded, made>>
vars == <<session_vars, codec_vars>>

NoAudio == View(0, 0)
NoMessage == Text(<<>>)
Unset == [raised |-> "unset", result |-> JNull]

SessionInit ==
  /\ pc = "init"
  /\ exc = "none"
  /\ outcome = "running"
  /\ ret = <<>>
  /\ final_text = <<>>
  /\ all_text = <<>>
  /\ data = NoMessage
  /\ received = 0
  /\ waits = 0
  /\ loop_end = "none"
  /\ audio_len = -1
  /\ i = 0
  /\ total_sent = 0
  /\ send_task = "none"
  /\ wire = <<>>
  /\ conn = "open"
  /\ closes = 0

Init ==
  /\ SessionInit
  /\ record = JNull
  /\ buffer = <<>>
  /\ decoded = Unset
  /\ made = "none"

\* " ".join(texts)
RECURSIVE Join(_)
Join(texts) ==
  IF texts = <<>> THEN <<>>
  ELSE IF Len(texts) = 1 THEN texts[1]
  ELSE texts[1] \o <<32>> \o Join(Tail(texts))

(***************************************************************************)
(* One pass of the loop body after recv has given data (lines 159-183):    *)
(* the loop goes on, breaks, or an exception leaves it.                    *)
(***************************************************************************)
Continue(text) == [ctl |-> "continue", final_text |-> text, why |-> "none"]
Break(text, why) == [ctl |-> "break", final_text |-> text, why |-> why]
Raise(text, e) == [ctl |-> "raise", final_text |-> text, why |-> e]

\* a slip: "definite" looked up on the result, not on its first utterance
CheckDefinite_OnResult(res, text) ==
  IF Truthy(DictGet(res, K_utterances, JList(<<>>)))
     /\ Truthy(DictGet(res, K_definite, JNull))
  THEN Break(text, "definite")
  ELSE Continue(text)

\* utterances and utterances[0].get("definite"), for a str text already kept
CheckDefinite(res, text) ==
  LET utterances == DictGet(res, K_utterances, JList(<<>>)) IN
  IF ~Truthy(utterances) THEN Continue(text)
  ELSE IF utterances.t = "dict" THEN Raise(text, "KeyError")
  ELSE IF utterances.t \in {"int", "bool"} THEN Raise(text, "TypeError")
  ELSE IF utterances.t = "str" THEN Raise(text, "AttributeError")
  ELSE IF ~IsDict(utterances.items[1]) THEN Raise(text, "AttributeError")
  ELSE IF Truthy(DictGet(utterances.items[1], K_definite, JNull))
       THEN Break(text, "definite")
       ELSE Continue(text)

\* a slip: final_text = text set before text is tested, so an empty text clears it
OnResult_AlwaysAssign(res, text, text0) ==
  IF ~IsDict(res) THEN Continue(text0)
  ELSE IF text.t # "str" THEN Raise(text0, "AttributeError")
  ELSE IF strip(text.s) # <<>> THEN CheckDefinite(res, strip(text.s))
  ELSE Continue(<<>>)

\* lines 171-183, for result["result"] = res
OnResult(res, text, text0) ==
  IF ~IsDict(res) THEN Continue(text0)
  ELSE IF text.t # "str" THEN Raise(text0, "AttributeError")
  ELSE IF strip(text.s) # <<>> THEN CheckDefinite(res, strip(text.s))
  ELSE Continue(text0)

\* a slip: a result that holds "error" taken for a server error
OnParsed_ErrorKeyBreaks(result, text0) ==
  IF DictGet(result, K_msg_type, JInt(0)).n = 15 \/ DictHas(result, K_error)
  THEN Break(text0, "error")
  ELSE IF DictGet(result, K_msg_type, JInt(0)).n = 9 /\ DictHas(result, K_result)
  THEN OnResult(DictGet(result, K_result, JNull),
                DictGet(DictGet(result, K_result, JNull), K_text, JStr(<<>>)),
                text0)
  ELSE Continue(text0)

\* lines 161-183, for what parse_response returned
OnParsed(result, text0) ==
  IF DictGet(result, K_msg_type, JInt(0)).n = 15 THEN Break(text0, "error")
  ELSE IF DictGet(result, K_msg_type, JInt(0)).n = 9 /\ DictHas(result, K_result)
  THEN OnResult(DictGet(result, K_result, JNull),
                DictGet(DictGet(result, K_result, JNull), K_text, JStr(<<>>)),
                text0)
  ELSE Continue(text0)

OnResponse(parsed, text0) ==
  IF parsed.raised # "none" THEN Raise(text0, parsed.raised)
  ELSE OnParsed(parsed.result, text0)

on_message(msg, text0) ==
  IF ~msg.bin THEN Continue(text0)
  ELSE OnResponse(parse_response(msg.body), text0)

\* all_text = [final_text] if final_text else []
AllText(text) == IF text # <<>> THEN <<text>> ELSE <<>>

(***************************************************************************)
(* The main task.                                                          *)
(***************************************************************************)
\* a slip: the initial request sent again after it was sent
SendInit_Twice ==
  /\ pc = "init"
  /\ IF conn = "open"
     THEN /\ wire' = wire \o << [head |-> init_msg, audio |-> NoAudio],
                                [head |-> init_msg, audio |-> NoAudio] >>
          /\ pc' = "read"
          /\ exc' = exc
     ELSE /\ exc' = "ConnectionClosed"
          /\ pc' = "close"
          /\ wire' = wire
  /\ UNCHANGED <<outcome, ret, final_text, all_text, data, received, waits,
                 loop_end, audio_len, i, total_sent, send_task, conn, closes>>
  /\ UNCHANGED codec_vars

\* await websocket.send(init_msg): sent, or ConnectionClosed
SendInit ==
  /\ pc = "init"
  /\ IF conn = "open"
     THEN /\ wire' = Append(wire, [head |-> init_msg, audio |-> NoAudio])
          /\ pc' = "read"
          /\ exc' = exc
     ELSE /\ exc' = "ConnectionClosed"
          /\ pc' = "close"
          /\ wire' = wire
  /\ UNCHANGED <<outcome, ret, final_text, all_text, data, received, waits,
                 loop_end, audio_len, i, total_sent, send_task, conn, closes>>
  /\ UNCHANGED codec_vars

\* the file is read, send_task created, and the loop issues its first wait
ReadAudio ==
  /\ pc = "read"
  /\ \E n \in AudioLens : audio_len' = n
  /\ total_sent' = 0
  /\ i' = 0
  /\ send_task' = "run"
  /\ final_text' = <<>>
  /\ waits' = waits + 1
  /\ pc' = "recv"
  /\ UNCHANGED <<exc, outcome, ret, all_text, data, received, loop_end, wire,
                 conn, closes>>
  /\ UNCHANGED codec_vars

\* open(audio_file, "rb") raises
ReadAudioFails ==
  /\ pc = "read"
  /\ exc' = "OSError"
  /\ pc' = "close"
  /\ UNCHANGED <<outcome, ret, final_text, all_text, data, received, waits,
                 loop_end, audio_len, i, total_sent, send_task, wire, conn, closes>>
  /\ UNCHANGED codec_vars

\* the wait gives a message and the loop body runs on it
Receive ==
  /\ pc = "recv"
  /\ conn = "open"
  /\ received < MaxInbound
  /\ \E msg \in Inbound :
       \E step \in {on_message(msg, final_text)} :
       /\ data' = msg
       /\ received' = received + 1
       /\ final_text' = step.final_text
       /\ IF step.ctl = "continue"
          THEN /\ pc' = "recv"
               /\ waits' = waits + 1
               /\ UNCHANGED <<loop_end, all_text, exc>>
          ELSE IF step.ctl = "break"
          THEN /\ pc' = "join"
               /\ loop_end' = step.why
               /\ all_text' = AllText(step.final_text)
               /\ UNCHANGED <<waits, exc>>
          ELSE /\ pc' = "close"
               /\ loop_end' = "raised"
               /\ exc' = step.why
               /\ UNCHANGED <<waits, all_text>>
  /\ UNCHANGED <<outcome, ret, audio_len, i, total_sent, send_task, wire, conn, closes>>
  /\ UNCHANGED codec_vars

\* asyncio.TimeoutError: no message within the 10 seconds
Timeout ==
  /\ pc = "recv"
  /\ conn = "open"
  /\ loop_end' = "timeout"
  /\ all_text' = AllText(final_text)
  /\ pc' = "join"
  /\ UNCHANGED <<exc, outcome, ret, final_text, data, received, waits, audio_len,
                 i, total_sent, send_task, wire, conn, closes>>
  /\ UNCHANGED codec_vars

\* websockets.exceptions.ConnectionClosed out of recv
ReceiveClosed ==
  /\ pc = "recv"
  /\ conn # "open"
  /\ loop_end' = "closed"
  /\ all_text' = AllText(final_text)
  /\ pc' = "join"
  /\ UNCHANGED <<exc, outcome, ret, final_text, data, received, waits, audio_len,
                 i, total_sent, send_task, wire, conn, closes>>
  /\ UNCHANGED codec_vars

\* a slip: send_task awaited outside the try, so its exception skips finally
AwaitSendTask_NoFinally ==
  /\ pc = "join"
  /\ send_task \in {"done", "failed"}
  /\ exc' = IF send_task = "failed" THEN "ConnectionClosed" ELSE exc
  /\ pc' = IF send_task = "failed" THEN "done" ELSE "close"
  /\ outcome' = IF send_task = "failed" THEN "raised" ELSE outcome
  /\ UNCHANGED <<ret, final_text, all_text, data, received, waits,
                 loop_end, audio_len, i, total_sent, send_task, wire, conn, closes>>
  /\ UNCHANGED codec_vars

\* await send_task: it has finished, or it raised and the exception is raised here
AwaitSendTask ==
  /\ pc = "join"
  /\ send_task \in {"done", "failed"}
  /\ exc' = IF send_task = "failed" THEN "ConnectionClosed" ELSE exc
  /\ pc' = "close"
  /\ UNCHANGED <<outcome, ret, final_text, all_text, data, received, waits,
                 loop_end, audio_len, i, total_sent, send_task, wire, conn, closes>>
  /\ UNCHANGED codec_vars

\* finally: websocket.close() is invoked
Close ==
  /\ pc = "close"
  /\ closes' = closes + 1
  /\ conn' = "closed"
  /\ pc' = "closing"
  /\ UNCHANGED <<exc, outcome, ret, final_text, all_text, data, received, waits,
                 loop_end, audio_len, i, total_sent, send_task, wire>>
  /\ UNCHANGED codec_vars

\* close() is through: return " ".join(all_text), or the exception goes on
Exit ==
  /\ pc = "closing"
  /\ pc' = "done"
  /\ IF exc = "none"
     THEN outcome' = "returned" /\ ret' = Join(all_text)
     ELSE outcome' = "raised" /\ ret' = ret
  /\ UNCHANGED <<exc, final_text, all_text, data, received, waits, loop_end,
                 audio_len, i, total_sent, send_task, wire, conn, closes>>
  /\ UNCHANGED codec_vars

(***************************************************************************)
(* The send_audio task: one step is the run up to its next await, or to    *)
(* its end.                                                                *)
(***************************************************************************)
\* a slip: > for >=
IsLast_Strict(k, n) == (k + chunk_size) > n

\* is_last = (i + chunk_size) >= len(audio_data)
IsLast(k, n) == (k + chunk_size) >= n

SendAudio ==
  /\ send_task = "run"
  /\ pc # "done"
  /\ IF i >= audio_len
     THEN \* range(0, len(audio_data), chunk_size) is exhausted
          /\ send_task' = "done"
          /\ UNCHANGED <<i, total_sent, wire>>
     ELSE
       LET chunk   == ViewSlice(View(0, audio_len), i, i + chunk_size)
           is_last == IsLast(i, audio_len)
           msg     == construct_audio_only_request(chunk, is_last)
       IN
       IF conn = "open"
       THEN /\ wire' = Append(wire, msg)
            /\ total_sent' = total_sent + chunk.len
            /\ i' = i + chunk_size
            /\ send_task' = send_task
       ELSE \* websocket.send raises ConnectionClosed
            /\ send_task' = "failed"
            /\ UNCHANGED <<i, total_sent, wire>>
  /\ UNCHANGED <<pc, exc, outcome, ret, final_text, all_text, data, received,
                 waits, loop_end, audio_len, conn, closes>>
  /\ UNCHANGED codec_vars

(***************************************************************************)
(* The remote side.                                                        *)
(***************************************************************************)
RemoteClose ==
  /\ conn = "open"
  /\ pc # "done"
  /\ conn' = "remote_closed"
  /\ UNCHANGED <<pc, exc, outcome, ret, final_text, all_text, data, received,
                 waits, loop_end, audio_len, i, total_sent, send_task, wire, closes>>
  /\ UNCHANGED codec_vars

Next ==
  \/ SendInit
  \/ ReadAudio
  \/ ReadAudioFails
  \/ Receive
  \/ Timeout
  \/ ReceiveClosed
  \/ AwaitSendTask
  \/ Close
  \/ Exit
  \/ SendAudio
  \/ RemoteClose

Spec == Init /\ [][Next]_vars

(***************************************************************************)
(* Fair scheduling, from the receive loop on: the event loop runs each     *)
(* task that can go on.  The main task goes on when its await is through:  *)
(* the receive wait ends after 10 seconds at the latest (or with           *)
(* ConnectionClosed), send_task is awaited until it has finished, and      *)
(* close completes.  The send_audio task goes on when its send completes   *)
(* or raises.  The remote side is under no obligation: it need not send a  *)
(* message (Receive) and need not close.                                   *)
(***************************************************************************)
MainStep ==
  \/ Timeout
  \/ ReceiveClosed
  \/ AwaitSendTask
  \/ Close
  \/ Exit

FairSpec == Spec /\ WF_vars(MainStep) /\ WF_vars(SendAudio)

(***************************************************************************)
(* The codec on its own: a buffer is received and decoded, or a request    *)
(* record is encoded and the frame decoded.                                *)
(***************************************************************************)
Records ==
  { JDict(<<>>, <<>>),
    JDict(<<K_text>>, <<JStr(T_hi)>>),
    ResultOf(JStr(T_hi), Utterances(JBool(TRUE))),
    init_payload }

\* the times gzip may stamp
GzipTimes == {0, 1700000000}

Payloads ==
  { <<>>,                                   \* empty
    <<123>>,                                \* {      (no JSON)
    <<123, 125>>,                           \* {}
    <<32, 123, 125, 10>>,                   \* {} in white space
    <<255, 123, 125>>,                      \* {} after a byte that is no UTF-8
    <<91, 93>>,                             \* []
    <<34, 104, 34>>,                        \* "h"
    <<49>>,                                 \* 1
    <<110, 117, 108, 108>>,                 \* null
    J_definite,
    gzip_compress(J_definite, 0),
    gzip_compress(<<91, 93>>, 0),
    gzip_compress(J_partial, 0) \o <<120>>  \* a gzip stream and a stray byte
  }

\* for a payload p: the sizes a frame may declare
DeclaredSizes(p) == {Len(p), Len(p) + 4, Max(Len(p) - 1, 0)}

Frames ==
  UNION { { ServerFrame(t, c, q, n, p) : n \in DeclaredSizes(p) } :
            t \in {0, 9, 15}, c \in {0, 1}, q \in {0, 7}, p \in Payloads }

\* the frames, and what is left of them when the first 0, 4 or 11 bytes arrive
Buffers == Frames \cup { Slice(f, 0, n) : f \in Frames, n \in {0, 4, 11} }

CodecInit ==
  /\ SessionInit
  /\ decoded = Unset
  /\ \/ made = "input" /\ buffer \in Buffers /\ record = JNull
     \/ made = "none" /\ buffer = <<>> /\ record \in Records

\* buffer = construct_full_client_request(record)
EncodeFull ==
  /\ made = "none"
  /\ \E mtime \in GzipTimes : buffer' = construct_full_client_request(record, mtime)
  /\ made' = "full"
  /\ UNCHANGED <<record, decoded>>
  /\ UNCHANGED session_vars

\* decoded = parse_response(buffer)
Decode ==
  /\ made # "none"
  /\ decoded = Unset
  /\ decoded' = parse_response(buffer)
  /\ UNCHANGED <<record, buffer, made>>
  /\ UNCHANGED session_vars

CodecNext ==
  \/ EncodeFull
  \/ Decode

CodecSpec == CodecInit /\ [][CodecNext]_vars

(***************************************************************************)
(* construct_audio_only_request on its own: a byte string cut from the     *)
(* audio pattern and a flag are encoded.                                   *)
(***************************************************************************)
\* the audio byte strings have every length up to MaxAudio, and some longer
MaxAudio == 20

AudioInputs ==
  { View(off, n) : off \in {0, 7, chunk_size},
                   n \in (0..MaxAudio) \cup {255, 256, 257, chunk_size} }

AudioInit ==
  /\ SessionInit
  /\ decoded = Unset
  /\ buffer = <<>>
  /\ made = "none"
  /\ record \in [audio : AudioInputs, is_last : BOOLEAN]

\* buffer = construct_audio_only_request(audio, is_last)
EncodeAudio ==
  /\ made = "none"
  /\ buffer' = MessageBytes(construct_audio_only_request(record.audio, record.is_last))
  /\ made' = "audio"
  /\ UNCHANGED <<record, decoded>>
  /\ UNCHANGED session_vars

AudioNext == EncodeAudio

AudioSpec == AudioInit /\ [][AudioNext]_vars

(***************************************************************************)
(* What the claims speak of.                                               *)
(***************************************************************************)
\* the frames built as type 9 with a text that is not empty once stripped and a
\* first utterance marked definite, and the text each carries, stripped
DefiniteFrames == {F_definite, F_gzip_definite, F_oversize, F_undersize}

StrippedText(msg) == IF msg = F_gzip_definite THEN T_yo ELSE T_hi

\* type 9, first utterance marked definite, text empty or white space only
BlankDefiniteFrames == {F_definite_blank, F_definite_empty}

\* the frames of type 15 (12 bytes or more)
ErrorFrames == {F_error, F_error_list}

\* the last wait gave msg, and it is the last message given so far
Got(msg) == received > 0 /\ data = msg

IsAudio(msg) == msg.head[2] \div 16 = 2
IsFinal(msg) == msg.head[2] % 16 = 2
IsFull(msg) == msg.head[2] \div 16 = 1

\* the audio frames sent so far, in order
AudioFrames == SelectSeq(wire, IsAudio)

FinalFrames == {k \in 1..Len(AudioFrames) : IsFinal(AudioFrames[k])}

LoopEnds == {"definite", "error", "timeout", "closed"}

(***************************************************************************)
(* C1.  A type-9 frame with a text (not empty once stripped) and a         *)
(* definite first utterance stops the loop on that frame: no further       *)
(* receive wait is issued, recognize returns that frame's stripped text,  *)
(* and the connection is closed.                                           *)
(***************************************************************************)
C1_DefiniteFrameReturnsItsText ==
  \A msg \in DefiniteFrames :
    /\ Got(msg) =>
         /\ loop_end = "definite"
         /\ pc # "recv"
         /\ waits = received
         /\ final_text = StrippedText(msg)
    /\ (Got(msg) /\ pc = "done") =>
         /\ outcome = "returned"
         /\ ret = StrippedText(msg)
         /\ conn = "closed"
         /\ closes = 1

\* the part of C1 that is about the loop alone
LoopStopsOnDefinite ==
  \A msg \in DefiniteFrames :
    Got(msg) =>
      /\ loop_end = "definite"
      /\ pc # "recv"
      /\ waits = received
      /\ final_text = StrippedText(msg)
      /\ (outcome = "returned" => ret = StrippedText(msg))
      /\ (pc = "done" => conn = "closed" /\ closes = 1)

C3_ErrorFrameReturnsCapturedText ==
  \A msg \in ErrorFrames :
    /\ Got(msg) => loop_end = "error" /\ pc # "recv" /\ waits = received
    /\ (Got(msg) /\ pc = "done") =>
         /\ outcome = "returned"
         /\ ret = final_text
         /\ (received = 1 => ret = <<>>)

(***************************************************************************)
(* C4.  A receive wait that elapses ends the loop gracefully: no exception *)
(* reaches the caller and recognize returns the text captured so far, the  *)
(* empty string when no frame ever came.                                   *)
(***************************************************************************)
C4_TimeoutReturnsCapturedText ==
  (loop_end = "timeout" /\ pc = "done") =>
    /\ outcome = "returned"
    /\ exc = "none"
    /\ ret = final_text
    /\ (received = 0 => ret = <<>>)

(***************************************************************************)
(* C5.  Whichever way the loop ends (definite result, error frame,         *)
(* timeout, connection closed), recognize returns a string, the captured   *)
(* text or the empty string, and does not raise, for every interleaving    *)
(* with the sender task.                                                   *)
(***************************************************************************)
C5_EveryLoopEndReturns ==
  (loop_end \in LoopEnds /\ pc = "done") =>
    /\ outcome = "returned"
    /\ exc = "none"
    /\ ret = final_text

(***************************************************************************)
(* C6.  On every exit of recognize after the connection was established,   *)
(* by return or by exception, websocket.close() has been invoked, and      *)
(* exactly once.                                                           *)
(***************************************************************************)
C6_ClosedExactlyOnce ==
  /\ closes <= 1
  /\ (pc = "done" \/ outcome # "running") => closes = 1 /\ conn = "closed"

C6_Witness ==
  /\ pc = "done"
  /\ outcome = "raised"
  /\ exc = "ConnectionClosed"
  /\ loop_end = "definite"
  /\ closes = 1

(***************************************************************************)
(* C7.  A sender task that runs to completion has sent exactly             *)
(* ceil(L / 16000) audio frames for audio of length L, with the final flag *)
(* on the last of them and on no other.                                    *)
(***************************************************************************)
C7_ChunkCountAndFinalFlag ==
  send_task = "done" =>
    /\ Len(AudioFrames) = (audio_len + chunk_size - 1) \div chunk_size
    /\ \A k \in 1..Len(AudioFrames) :
         IsFinal(AudioFrames[k]) <=> k = Len(AudioFrames)

C7_Witness ==
  /\ send_task = "done"
  /\ audio_len = 2 * chunk_size
  /\ Len(AudioFrames) = 2
  /\ IsFinal(AudioFrames[2])

(***************************************************************************)
(* C8.  In every session whose sender task runs to completion exactly one  *)
(* audio frame carries the final flag, for every audio length, the empty   *)
(* file included.                                                          *)
(***************************************************************************)
C8_ExactlyOneFinalFrame ==
  send_task = "done" => Cardinality(FinalFrames) = 1

(***************************************************************************)
(* The codec claims are checked under CodecSpec.                           *)
(***************************************************************************)
\* the fields of a frame made by construct_full_client_request
FullSize(frame) == UnpackBE32(Slice(frame, 4, 8))
FullPayload(frame) == Slice(frame, 8, 8 + FullSize(frame))

\* result holds the members of rec, in order, and then _msg_type and _sequence
HoldsRecord(result, rec) ==
  /\ IsDict(result)
  /\ result.k = rec.k \o <<K_msg_type, K_sequence>>
  /\ SubSeq(result.v, 1, Len(rec.v)) = rec.v

\* decoded is the raw fallback for text, of message type t and sequence q
IsRawFallback(t, q, text) ==
  decoded = Returned(JDict(<<K_msg_type, K_sequence, K_raw>>,
                           <<JInt(t), JInt(q), JStr(text)>>))

(***************************************************************************)
(* C9.  As claimed: decoding the frame made by                             *)
(* construct_full_client_request(record) with parse_response recovers the  *)
(* record's fields.                                                        *)
(***************************************************************************)
C9_DecodeRecoversRecord ==
  (made = "full" /\ decoded # Unset) =>
    /\ decoded.raised = "none"
    /\ HoldsRecord(decoded.result, record)

(***************************************************************************)
(* C9, amended.  The frame made by construct_full_client_request(record)   *)
(* is the header 11 10 11 00, the big-endian size of the gzip stream and   *)
(* the gzip stream, and decompressing the size bytes at offset 8 and       *)
(* parsing them as JSON gives back the record; parse_response, which       *)
(* reads a sequence number at offset 4 and the size at offset 8, does not: *)
(* it takes the size field for the sequence number and returns the         *)
(* raw-text fallback of message type 1 for the bytes from offset 12 on.    *)
(***************************************************************************)
C9_RecordInFrameNotDecoded ==
  made = "full" =>
    /\ Slice(buffer, 0, 4) = <<17, 16, 17, 0>>
    /\ FullSize(buffer) = Len(buffer) - 8
    /\ gzip_decompress(FullPayload(buffer)).ok
    /\ json_loads(decode_utf8_ignore(gzip_decompress(FullPayload(buffer)).out))
         = [ok |-> TRUE, v |-> record]
    /\ decoded # Unset =>
         /\ IsRawFallback(1, FullSize(buffer),
                          decode_utf8_ignore(Slice(buffer, 12, Len(buffer))))
         /\ ~HoldsRecord(decoded.result, record)

C9_Witness ==
  /\ made = "full"
  /\ record = init_payload
  /\ decoded # Unset
  /\ DictHas(decoded.result, K_raw)

(***************************************************************************)
(* C10.  For every buffer of 12 bytes or more parse_response returns a     *)
(* record and does not raise, and the record carries the frame's message   *)
(* type and sequence number, whatever the payload is: a JSON object, JSON  *)
(* of another kind, no JSON, empty, or a gzip stream that does not         *)
(* decompress.                                                             *)
(***************************************************************************)
C10_DecodeNeverRaises ==
  (decoded # Unset /\ Len(buffer) >= 12) =>
    /\ decoded.raised = "none"
    /\ DictGet(decoded.result, K_msg_type, JNull) = JInt(buffer[2] \div 16)
    /\ DictGet(decoded.result, K_sequence, JNull) = JInt(UnpackBE32(Slice(buffer, 4, 8)))

\* C10 without the payloads that are JSON but no object
DecodeOfObjectOrNoJson ==
  (decoded # Unset /\ Len(buffer) >= 12 /\ decoded.raised = "none") =>
    /\ DictGet(decoded.result, K_msg_type, JNull) = JInt(buffer[2] \div 16)
    /\ DictGet(decoded.result, K_sequence, JNull) = JInt(UnpackBE32(Slice(buffer, 4, 8)))

(***************************************************************************)
(* The claims about one pass of the loop are action properties: a step     *)
(* with received' = received + 1 is the pass on the message data'.         *)
(***************************************************************************)
\* the binary messages of fewer than 12 bytes
ShortFrames == {msg \in Inbound : msg.bin /\ Len(msg.body) < 12}

\* the loop has taken msg and gone on to the next wait, final_text as it was
Ignored ==
  /\ final_text' = final_text
  /\ pc' = "recv"
  /\ waits' = waits + 1
  /\ loop_end' = "none"
  /\ exc' = "none"

(***************************************************************************)
(* C11.  A binary frame of fewer than 12 bytes decodes to the value        *)
(* {"error": "Response too short"}, whatever its header bits, and the loop *)
(* goes on to the next wait with the captured text as it was.              *)
(***************************************************************************)
C11_ShortFrameIsNotFatal ==
  [][(received' = received + 1 /\ data' \in ShortFrames) =>
       /\ parse_response(data'.body)
            = Returned(JDict(<<K_error>>, <<JStr(S_too_short)>>))
       /\ Ignored]_vars

C11_Witness ==
  /\ Got(F_short)
  /\ received = 2
  /\ final_text = T_yo
  /\ pc = "recv"
  /\ waits = 3

\* the frames of type 9 whose result.text, stripped, is not empty
TextFrames ==
  { F_definite, F_partial, F_gzip_definite, F_no_utterances, F_bad_gzip,
    F_oversize, F_undersize, F_utterance_int }

\* the stripped text such a frame carries
CarriedText(msg) ==
  IF msg \in {F_partial, F_gzip_definite, F_bad_gzip} THEN T_yo ELSE T_hi

(***************************************************************************)
(* C12.  What recognize returns is the latest captured text: the captured  *)
(* text starts empty, a pass of the loop on a type-9 frame with a text     *)
(* (not empty once stripped) makes that stripped text the captured one,    *)
(* a pass on any other message leaves it as it was, nothing else changes   *)
(* it, and the value returned is the captured text.                        *)
(***************************************************************************)
C12_ReturnsLatestText ==
  [][/\ (pc = "init" => final_text = <<>>)
     /\ (received' = received + 1 /\ data' \in TextFrames)
          => final_text' = CarriedText(data')
     /\ (received' = received + 1 /\ data' \notin TextFrames)
          => final_text' = final_text
     /\ (received' = received) => final_text' = final_text
     /\ (outcome' = "returned") => ret' = final_text']_vars

C12_Witness ==
  /\ Got(F_definite_blank)
  /\ received = 2
  /\ final_text = T_yo
  /\ outcome = "returned"
  /\ ret = T_yo

\* the fields of a frame as parse_response reads them
FrameType(frame) == (frame[2] \div 16) % 16
FrameCompression(frame) == frame[3] % 16
FrameSequence(frame) == UnpackBE32(Slice(frame, 4, 8))
FrameSize(frame) == UnpackBE32(Slice(frame, 8, 12))

\* the bytes from offset 12 up to min(12 + declared size, length)
FramePayload(frame) ==
  [k \in 1..(Min(12 + FrameSize(frame), Len(frame)) - 12) |-> frame[12 + k]]

(***************************************************************************)
(* C13.  parse_response takes as payload the bytes from offset 12 up to    *)
(* min(12 + declared size, buffer length), no more and no fewer: what it   *)
(* gives is what these bytes give, bytes past the declared size change     *)
(* nothing, a declared size past the end of the buffer is as good as the   *)
(* size of what is there, and the raw fallback of a payload that is not    *)
(* compressed is the text of these bytes.                                  *)
(***************************************************************************)
C13_PayloadIsDeclaredSlice ==
  (decoded # Unset /\ Len(buffer) >= 12) =>
    /\ decoded = ParsePayload(FrameType(buffer), FrameCompression(buffer),
                              FrameSequence(buffer), FramePayload(buffer))
    /\ decoded = parse_response(Slice(buffer, 0, 12) \o FramePayload(buffer))
    /\ decoded = parse_response(Slice(buffer, 0, 8)
                                  \o PackBE32(Len(FramePayload(buffer)))
                                  \o FramePayload(buffer))
    /\ (FrameCompression(buffer) # 1 /\ decoded.raised = "none"
          /\ DictHas(decoded.result, K_raw))
         => DictGet(decoded.result, K_raw, JNull)
              = JStr(decode_utf8_ignore(FramePayload(buffer)))

C13_Witness ==
  /\ made = "input"
  /\ decoded # Unset
  /\ Len(buffer) >= 12
  /\ FrameSize(buffer) > Len(buffer) - 12
  /\ Len(buffer) > 12
  /\ decoded.raised = "none"
  /\ DictHas(decoded.result, K_result)

\* buffer is a frame marked gzip whose payload is no gzip stream
BadGzipFrame ==
  /\ Len(buffer) >= 12
  /\ FrameCompression(buffer) = 1
  /\ ~gzip_decompress(FramePayload(buffer)).ok

(***************************************************************************)
(* C14.  For a frame marked gzip whose payload is no valid gzip stream     *)
(* parse_response does not abort: it goes on with the payload bytes as     *)
(* they are and returns a result record, the parsed JSON or the raw        *)
(* fallback, with message type and sequence number.                        *)
(***************************************************************************)
C14_BadGzipStillDecodes ==
  (decoded # Unset /\ BadGzipFrame) =>
    /\ decoded.raised = "none"
    /\ IsDict(decoded.result)
    /\ decoded = ParseJson(FrameType(buffer), FrameSequence(buffer),
                           decode_utf8_ignore(FramePayload(buffer)))

\* C14 as far as it holds: the payload goes on unmodified, and a record is
\* returned unless the payload is JSON that is no object
BadGzipPassesThrough ==
  (decoded # Unset /\ BadGzipFrame) =>
    /\ decoded = ParseJson(FrameType(buffer), FrameSequence(buffer),
                           decode_utf8_ignore(FramePayload(buffer)))
    /\ decoded.raised \in {"none", "TypeError"}
    /\ decoded.raised = "TypeError"
         <=> (/\ json_loads(decode_utf8_ignore(FramePayload(buffer))).ok
              /\ ~IsDict(json_loads(decode_utf8_ignore(FramePayload(buffer))).v))

\* the frames of 12 bytes or more whose type is neither 9 nor 15, and the
\* messages that are no binary frames
OtherMessages == {F_other, F_other_list, M_text}

(***************************************************************************)
(* C15.  A frame whose message type is neither 9 nor 15, and a message     *)
(* that is no binary frame, is ignored: the captured text and the state of *)
(* the loop stay as they were and the loop goes on to the next wait.       *)
(***************************************************************************)
C15_OtherMessagesIgnored ==
  [][(received' = received + 1 /\ data' \in OtherMessages) => Ignored]_vars

\* C15 for the messages on which parse_response does not raise
OtherMessagesIgnoredUnlessRaised ==
  [][(received' = received + 1 /\ data' \in OtherMessages \ {F_other_list})
       => Ignored]_vars

(***************************************************************************)
(* C16 is checked under AudioSpec.  The frame made by                      *)
(* construct_audio_only_request(bytes, is_last) is 8 + len(bytes) long,    *)
(* its big-endian size field at offset 4 is len(bytes), the bytes from     *)
(* offset 8 on are the audio as it is, the high nibble of header byte 1 is *)
(* 2, and its low nibble is 2 when is_last and 0 otherwise.                *)
(***************************************************************************)
C16_AudioFrameLayout ==
  made = "audio" =>
    /\ Len(buffer) = 8 + record.audio.len
    /\ UnpackBE32(Slice(buffer, 4, 8)) = record.audio.len
    /\ \A k \in 1..record.audio.len :
         buffer[8 + k] = AudioByte(record.audio.off + k - 1)
    /\ buffer[2] \div 16 = 2
    /\ buffer[2] % 16 = (IF record.is_last THEN 2 ELSE 0)
    /\ (buffer[2] % 16 = 2) <=> record.is_last

C16_Witness ==
  /\ made = "audio"
  /\ record.is_last
  /\ record.audio.len = 257
  /\ Slice(buffer, 0, 8) = <<17, 34, 0, 0, 0, 0, 1, 1>>

(***************************************************************************)
(* C17.  On every path out of the receive loop (definite result, error     *)
(* frame, timeout, connection closed, or an exception raised in the loop)  *)
(* the send_audio task has finished before websocket.close() is invoked    *)
(* and before recognize exits.                                             *)
(***************************************************************************)
C17_SenderFinishedBeforeClose ==
  (loop_end # "none" /\ (closes > 0 \/ pc = "done")) =>
    send_task \in {"done", "failed"}

\* C17 for the four ways the loop ends without an exception
SenderFinishedUnlessLoopRaised ==
  (loop_end \in LoopEnds /\ (closes > 0 \/ pc = "done")) =>
    send_task \in {"done", "failed"}

\* the full-client-request frames sent so far
FullFrames == SelectSeq(wire, IsFull)

(***************************************************************************)
(* C18.  The full-client-request frame is sent once and is the first frame *)
(* on the connection: while its send has not completed no audio frame is   *)
(* sent, no sender task exists and no receive wait is issued; once it has, *)
(* it is the first frame sent and no second one follows.  (The send is     *)
(* invoked once; when the connection is closed by then it raises           *)
(* ConnectionClosed, and the session ends with nothing sent and no wait.)  *)
(***************************************************************************)
C18_InitialFrameOnceAndFirst ==
  /\ Len(FullFrames) <= 1
  /\ wire # <<>> => wire[1] = [head |-> init_msg, audio |-> NoAudio]
  /\ Len(FullFrames) = 0 =>
       /\ wire = <<>>
       /\ waits = 0
       /\ send_task = "none"
       /\ \/ pc = "init"
          \/ pc \in {"close", "closing", "done"} /\ exc = "ConnectionClosed"
  /\ pc \in {"read", "recv", "join"} => Len(FullFrames) = 1

C18_Witness ==
  /\ pc = "done"
  /\ outcome = "returned"
  /\ Len(wire) = 3
  /\ IsFull(wire[1])
  /\ IsAudio(wire[2])
  /\ IsAudio(wire[3])
  /\ received = 2

(***************************************************************************)
(* C19.  At every point the payloads of the audio frames sent so far, in   *)
(* the order sent, are the first total_sent bytes of the audio file with   *)
(* no gap, duplicate or reordering; every audio frame carries 1 to 16000   *)
(* bytes, fewer than 16000 only when it is the last; and total_sent is the *)
(* length of the audio when the sender task has finished.                  *)
(***************************************************************************)
C19_AudioSentInOrder ==
  /\ \A k \in 1..Len(AudioFrames) :
       /\ AudioFrames[k].audio.off
            = (IF k = 1 THEN 0
               ELSE AudioFrames[k - 1].audio.off + AudioFrames[k - 1].audio.len)
       /\ AudioFrames[k].audio.len \in 1..chunk_size
       /\ AudioFrames[k].audio.len < chunk_size => k = Len(AudioFrames)
       /\ AudioFrames[k].audio.off + AudioFrames[k].audio.len <= audio_len
       /\ UnpackBE32(Slice(AudioFrames[k].head, 4, 8)) = AudioFrames[k].audio.len
  /\ total_sent
       = (IF AudioFrames = <<>> THEN 0
          ELSE AudioFrames[Len(AudioFrames)].audio.off
                 + AudioFrames[Len(AudioFrames)].audio.len)
  /\ send_task = "done" => total_sent = audio_len

C19_Witness ==
  /\ send_task = "done"
  /\ audio_len = chunk_size + 1
  /\ Len(AudioFrames) = 2
  /\ AudioFrames[2].audio = View(chunk_size, 1)
  /\ total_sent = chunk_size + 1

(***************************************************************************)
(* C20 is checked under FairSpec.  Under fair scheduling of the main task  *)
(* and the sender task, with every send completing and at most MaxInbound  *)
(* inbound messages, every session that has entered the receive loop       *)
(* reaches one of the terminal conditions (definite result, error frame,   *)
(* timeout, connection closed), closes the connection and exits.           *)
(***************************************************************************)
C20_SessionReachesTerminalCondition ==
  (waits > 0) ~> (/\ pc = "done"
                  /\ loop_end \in LoopEnds
                  /\ closes = 1
                  /\ conn = "closed")

\* C20 without the way the loop ends: every session that has entered the loop
\* closes and exits, the sender and the receiver do not block each other for ever
SessionExits == (waits > 0) ~> (pc = "done" /\ closes = 1 /\ conn = "closed")

\* the loop, once entered, ends
LoopIsLeft == (waits > 0) ~> (loop_end # "none")

=============================================================================
